---- MODULE Spec2Model ----
(***************************************************************************)
(* RoomieMatch MCP server (mcp_starter.py, rooms_database.py): the         *)
(* in-memory listing store ROOMS_DB and the two tools that touch it,       *)
(* add_room and room_finder, together with the text normalizers they use.  *)
(*                                                                         *)
(* Representation.  A Python str is a sequence of one-character strings,   *)
(* so that strip/lower/capitalize/re.sub are computed character by         *)
(* character.  An optional value (an argument that may be None, a dict key *)
(* that may be absent) is a sequence of length 0 or 1: None == <<>>,       *)
(* Some(v) == <<v>>.  A calendar date is its proleptic ordinal             *)
(* (date.toordinal()); date.isoformat() of four-digit years is fixed width *)
(* and zero padded, so comparing the ISO strings is comparing ordinals.    *)
(***************************************************************************)
EXTENDS Integers, Sequences, FiniteSets, TLC

None == <<>>

Some(v) == <<v>>

(* ------------------------------------------------------------------ *)
(* Characters and the str methods used by the tools                   *)
(* ------------------------------------------------------------------ *)
UpperLetters == <<"A","B","C","D","E","F","G","H","I","J","K","L","M",
                  "N","O","P","Q","R","S","T","U","V","W","X","Y","Z">>

LowerLetters == <<"a","b","c","d","e","f","g","h","i","j","k","l","m",
                  "n","o","p","q","r","s","t","u","v","w","x","y","z">>

Digits == <<"0","1","2","3","4","5","6","7","8","9">>

Range(s) == { s[i] : i \in DOMAIN s }

UpperSet == Range(UpperLetters)

LowerSet == Range(LowerLetters)

DigitSet == Range(Digits)

\* str.isspace() / the regex class \s, on the ASCII characters used here
SpaceChars == {" ", "\t", "\n"}

\* the regex class \w: letters, digits and the underscore
WordChars == UpperSet \cup LowerSet \cup DigitSet \cup {"_"}

IsSpace(c) == c \in SpaceChars

IsWord(c) == c \in WordChars

ToLower == [ c \in UpperSet |-> LowerLetters[CHOOSE i \in DOMAIN UpperLetters : UpperLetters[i] = c] ]

ToUpper == [ c \in LowerSet |-> UpperLetters[CHOOSE i \in DOMAIN LowerLetters : LowerLetters[i] = c] ]

LowerChar(c) == IF c \in UpperSet THEN ToLower[c] ELSE c

UpperChar(c) == IF c \in LowerSet THEN ToUpper[c] ELSE c

\* str.lower()
Lower(s) == [ i \in DOMAIN s |-> LowerChar(s[i]) ]

RECURSIVE LStrip(_)
LStrip(s) == IF s # <<>> /\ IsSpace(Head(s)) THEN LStrip(Tail(s)) ELSE s

RECURSIVE RStrip(_)
RStrip(s) ==
  IF s # <<>> /\ IsSpace(s[Len(s)]) THEN RStrip(SubSeq(s, 1, Len(s) - 1)) ELSE s

\* str.strip()
Strip(s) == RStrip(LStrip(s))

\* str.capitalize(): first character upper-cased, the rest lower-cased
Capitalize(s) ==
  [ i \in DOMAIN s |-> IF i = 1 THEN UpperChar(s[i]) ELSE LowerChar(s[i]) ]

\* re.sub(r"\s+", " ", t): every maximal run of whitespace becomes one space
RECURSIVE CollapseSpaces(_)
CollapseSpaces(s) ==
  IF s = <<>> THEN <<>>
  ELSE IF IsSpace(Head(s))
         THEN <<" ">> \o CollapseSpaces(LStrip(s))
         ELSE <<Head(s)>> \o CollapseSpaces(Tail(s))

\* re.sub(r"[^\w\s]", "", t): drop what is neither word character nor space
DropPunctuation(s) == SelectSeq(s, LAMBDA c : IsWord(c) \/ IsSpace(c))

\* re.sub(r"_", " ", t)
UnderscoresToSpaces(s) == [ i \in DOMAIN s |-> IF s[i] = "_" THEN " " ELSE s[i] ]

\* a slip: the second whitespace pass (collapse and strip) left out
cleanup_basic_without_second_pass(text) ==
  IF text = <<>> THEN <<>>
  ELSE LET t1 == Lower(Strip(text))
           t2 == CollapseSpaces(t1)
           t3 == DropPunctuation(t2)
       IN  UnderscoresToSpaces(t3)

_cleanup_basic(text) ==
  IF text = <<>> THEN <<>>
  ELSE LET t1 == Lower(Strip(text))
           t2 == CollapseSpaces(t1)
           t3 == DropPunctuation(t2)
           t4 == UnderscoresToSpaces(t3)
       IN  Strip(CollapseSpaces(t4))

(* ------------------------------------------------------------------ *)
(* Normalizers                                                        *)
(* ------------------------------------------------------------------ *)
\* dict.get(key, default) on a dict given as a set of <<key, value>> pairs
DictGet(d, k, default) ==
  IF \E p \in d : p[1] = k THEN (CHOOSE p \in d : p[1] = k)[2] ELSE default

\* cities_and_areas.py is not part of the sources at hand; the two aliases
\* are the ones the room_finder tool description advertises.
CITY_SYNONYMS ==
  { << <<"b","a","n","g","a","l","o","r","e">>, <<"b","e","n","g","a","l","u","r","u">> >> }

AREA_SYNONYMS ==
  { << <<"k","o","r","m","a","n","g","a","l","a">>,
       <<"k","o","r","a","m","a","n","g","a","l","a">> >> }

normalize_city(text) ==
  IF text = <<>> THEN <<>>
  ELSE LET t == _cleanup_basic(text) IN DictGet(CITY_SYNONYMS, t, t)

normalize_area(text) ==
  IF text = <<>> THEN <<>>
  ELSE LET t == _cleanup_basic(text) IN DictGet(AREA_SYNONYMS, t, t)

normalize_amenity(a) == _cleanup_basic(a)

(* ------------------------------------------------------------------ *)
(* Listing ids: f"R{n:03d}", startswith('R'), isdigit(), int()        *)
(* ------------------------------------------------------------------ *)
RECURSIVE DecimalDigits(_)
DecimalDigits(n) ==
  IF n < 10 THEN <<Digits[n + 1]>>
  ELSE DecimalDigits(n \div 10) \o <<Digits[(n % 10) + 1]>>

RECURSIVE ZeroPad(_, _)
ZeroPad(s, width) == IF Len(s) >= width THEN s ELSE ZeroPad(<<"0">> \o s, width)

\* f"R{new_id_num:03d}"
FormatId(n) == <<"R">> \o ZeroPad(DecimalDigits(n), 3)

\* str.isdigit(): non-empty and every character a digit
IsDigitStr(s) == s # <<>> /\ \A i \in DOMAIN s : s[i] \in DigitSet

DigitValues == [ c \in DigitSet |-> (CHOOSE i \in DOMAIN Digits : Digits[i] = c) - 1 ]

DigitValue(c) == DigitValues[c]

RECURSIVE ParseInt(_)
ParseInt(s) ==
  IF s = <<>> THEN 0
  ELSE 10 * ParseInt(SubSeq(s, 1, Len(s) - 1)) + DigitValue(s[Len(s)])

HasNumericId(room) == room.id # <<>> /\ Head(room.id) = "R" /\ IsDigitStr(Tail(room.id))

Max(a, b) == IF a >= b THEN a ELSE b

\* the "Generate New ID" loop of add_room, over the first n rooms of db
RECURSIVE MaxIdUpTo(_, _)
MaxIdUpTo(db, n) ==
  IF n = 0 THEN 0
  ELSE LET room == db[n]
           rest == MaxIdUpTo(db, n - 1)
       IN  IF HasNumericId(room) THEN Max(rest, ParseInt(Tail(room.id))) ELSE rest

\* a slip: the next number taken from the size of the store
max_id_from_length(db) == Len(db)

max_id(db) == MaxIdUpTo(db, Len(db))

\* a slip: the increment forgotten
new_id_without_increment(db) == FormatId(max_id(db))

new_id(db) == FormatId(max_id(db) + 1)

(* ------------------------------------------------------------------ *)
(* Python truthiness of the optional arguments                        *)
(* ------------------------------------------------------------------ *)
\* "if x" for x : str | None, List[str] | None  (None, "" and [] are falsy)
TruthySeq(o) == o # None /\ o[1] # <<>>

\* "if x" for x : int | None  (None and 0 are falsy)
TruthyInt(o) == o # None /\ o[1] # 0

\* (x or "") and (x or [])
OrEmpty(o) == IF TruthySeq(o) THEN o[1] ELSE <<>>

GENDERS == { <<"M","a","l","e">>, <<"F","e","m","a","l","e">>, <<"A","n","y">> }

(* ------------------------------------------------------------------ *)
(* rooms_database.py                                                  *)
(* ------------------------------------------------------------------ *)
InitialRooms ==
  <<
    [ id |-> <<"R", "0", "0", "5">>,
      location |-> [ city |-> <<"B", "e", "n", "g", "a", "l", "u", "r", "u">>,
                     area |-> <<"M", "a", "r", "a", "t", "h", "a", "h", "a", "l", "l", "i">>,
                     pincode |-> <<"5", "6", "0", "0", "3", "7">> ],
      rent |-> Some(10500), gender_pref |-> <<"A", "n", "y">>,
      amenities |-> << <<"W", "i", "F", "i">>,
                     <<"G", "e", "y", "s", "e", "r">> >>,
      description |-> <<"S","p","a","c","i","o","u","s"," ","s","i","n","g","l","e"," ","r","o","o","m"," ","i","n"," ","a"," ","2","B","H","K"," ","a","p","a","r","t","m","e","n","t","."," ","C","l","o","s","e"," ","t","o"," ","I","T"," ","p","a","r","k","s",".">>,
      photo_url |-> Some("https://example.com/img5.jpg"), posted_by |-> "user_hash_pqr",
      date_posted |-> 739464, is_active |-> TRUE, expires_at |-> 739494,
      spots_available |-> Some(1) ],
    [ id |-> <<"R", "0", "0", "6">>,
      location |-> [ city |-> <<"B", "e", "n", "g", "a", "l", "u", "r", "u">>,
                     area |-> <<"I", "n", "d", "i", "r", "a", "n", "a", "g", "a", "r">>,
                     pincode |-> <<"5", "6", "0", "0", "3", "8">> ],
      rent |-> Some(18000), gender_pref |-> <<"F", "e", "m", "a", "l", "e">>,
      amenities |-> << <<"W", "i", "F", "i">>,
                     <<"A", "C">>,
                     <<"W", "a", "s", "h", "i", "n", "g", " ", "M", "a", "c", "h", "i", "n", "e">>,
                     <<"B", "a", "l", "c", "o", "n", "y">> >>,
      description |-> <<"L","u","x","u","r","i","o","u","s"," ","1","B","H","K"," ","n","e","a","r"," ","t","h","e"," ","m","e","t","r","o"," ","s","t","a","t","i","o","n","."," ","F","u","l","l","y"," ","f","u","r","n","i","s","h","e","d",".">>,
      photo_url |-> Some("https://example.com/img6.jpg"), posted_by |-> "user_hash_stu",
      date_posted |-> 739465, is_active |-> TRUE, expires_at |-> 739495,
      spots_available |-> Some(1) ],
    [ id |-> <<"R", "0", "0", "7">>,
      location |-> [ city |-> <<"P", "u", "n", "e">>,
                     area |-> <<"H", "i", "n", "j", "e", "w", "a", "d", "i">>,
                     pincode |-> <<"4", "1", "1", "0", "5", "7">> ],
      rent |-> Some(8500), gender_pref |-> <<"M", "a", "l", "e">>,
      amenities |-> << <<"W", "i", "F", "i">>,
                     <<"G", "e", "y", "s", "e", "r">>,
                     <<"F", "o", "o", "d", " ", "I", "n", "c", "l", "u", "d", "e", "d">> >>,
      description |-> <<"P","G"," ","f","o","r"," ","w","o","r","k","i","n","g"," ","p","r","o","f","e","s","s","i","o","n","a","l","s","."," ","F","o","o","d"," ","a","n","d"," ","l","a","u","n","d","r","y"," ","i","n","c","l","u","d","e","d",".">>,
      photo_url |-> None, posted_by |-> "user_hash_vwx",
      date_posted |-> 739466, is_active |-> TRUE, expires_at |-> 739496,
      spots_available |-> Some(2) ],
    [ id |-> <<"R", "0", "0", "8">>,
      location |-> [ city |-> <<"M", "u", "m", "b", "a", "i">>,
                     area |-> <<"A", "n", "d", "h", "e", "r", "i", " ", "E", "a", "s", "t">>,
                     pincode |-> <<"4", "0", "0", "0", "9", "9">> ],
      rent |-> Some(25000), gender_pref |-> <<"A", "n", "y">>,
      amenities |-> << <<"W", "i", "F", "i">>,
                     <<"A", "C">>,
                     <<"W", "a", "s", "h", "i", "n", "g", " ", "M", "a", "c", "h", "i", "n", "e">>,
                     <<"G", "y", "m">>,
                     <<"S", "w", "i", "m", "m", "i", "n", "g", " ", "P", "o", "o", "l">> >>,
      description |-> <<"S","t","u","d","i","o"," ","a","p","a","r","t","m","e","n","t"," ","i","n"," ","a"," ","m","o","d","e","r","n"," ","c","o","m","p","l","e","x"," ","w","i","t","h"," ","a","l","l"," ","f","a","c","i","l","i","t","i","e","s",".">>,
      photo_url |-> Some("https://example.com/img8.jpg"), posted_by |-> "user_hash_yza",
      date_posted |-> 739467, is_active |-> TRUE, expires_at |-> 739497,
      spots_available |-> Some(1) ],
    [ id |-> <<"R", "0", "0", "9">>,
      location |-> [ city |-> <<"B", "e", "n", "g", "a", "l", "u", "r", "u">>,
                     area |-> <<"J", "a", "y", "a", "n", "a", "g", "a", "r">>,
                     pincode |-> <<"5", "6", "0", "0", "4", "1">> ],
      rent |-> Some(14000), gender_pref |-> <<"F", "e", "m", "a", "l", "e">>,
      amenities |-> << <<"W", "i", "F", "i">>,
                     <<"B", "a", "l", "c", "o", "n", "y">>,
                     <<"P", "a", "r", "k", "i", "n", "g">> >>,
      description |-> <<"P","e","a","c","e","f","u","l"," ","r","o","o","m"," ","i","n"," ","a"," ","q","u","i","e","t"," ","r","e","s","i","d","e","n","t","i","a","l"," ","a","r","e","a","."," ","G","a","t","e","d"," ","s","o","c","i","e","t","y",".">>,
      photo_url |-> None, posted_by |-> "user_hash_bcd",
      date_posted |-> 739469, is_active |-> TRUE, expires_at |-> 739499,
      spots_available |-> Some(1) ],
    [ id |-> <<"R", "0", "1", "0">>,
      location |-> [ city |-> <<"P", "u", "n", "e">>,
                     area |-> <<"K", "o", "r", "e", "g", "a", "o", "n", " ", "P", "a", "r", "k">>,
                     pincode |-> <<"4", "1", "1", "0", "0", "1">> ],
      rent |-> Some(17000), gender_pref |-> <<"A", "n", "y">>,
      amenities |-> << <<"W", "i", "F", "i">>,
                     <<"A", "C">>,
                     <<"W", "a", "s", "h", "i", "n", "g", " ", "M", "a", "c", "h", "i", "n", "e">> >>,
      description |-> <<"S","t","y","l","i","s","h"," ","1","B","H","K"," ","w","i","t","h"," ","a"," ","l","a","r","g","e"," ","b","a","l","c","o","n","y","."," ","C","e","n","t","r","a","l","l","y"," ","l","o","c","a","t","e","d",".">>,
      photo_url |-> Some("https://example.com/img10.jpg"), posted_by |-> "user_hash_cde",
      date_posted |-> 739470, is_active |-> TRUE, expires_at |-> 739500,
      spots_available |-> Some(1) ],
    [ id |-> <<"R", "0", "1", "1">>,
      location |-> [ city |-> <<"H", "y", "d", "e", "r", "a", "b", "a", "d">>,
                     area |-> <<"G", "a", "c", "h", "i", "b", "o", "w", "l", "i">>,
                     pincode |-> <<"5", "0", "0", "0", "3", "2">> ],
      rent |-> Some(11000), gender_pref |-> <<"M", "a", "l", "e">>,
      amenities |-> << <<"W", "i", "F", "i">>,
                     <<"A", "C">>,
                     <<"F", "o", "o", "d", " ", "I", "n", "c", "l", "u", "d", "e", "d">> >>,
      description |-> <<"S","h","a","r","e","d"," ","r","o","o","m"," ","i","n"," ","a"," ","h","i","g","h","-","e","n","d"," ","P","G","."," ","A","l","l"," ","m","e","a","l","s"," ","p","r","o","v","i","d","e","d",".">>,
      photo_url |-> Some("https://example.com/img11.jpg"), posted_by |-> "user_hash_efg",
      date_posted |-> 739471, is_active |-> TRUE, expires_at |-> 739501,
      spots_available |-> Some(2) ],
    [ id |-> <<"R", "0", "1", "2">>,
      location |-> [ city |-> <<"C", "h", "e", "n", "n", "a", "i">>,
                     area |-> <<"A", "d", "y", "a", "r">>,
                     pincode |-> <<"6", "0", "0", "0", "2", "0">> ],
      rent |-> Some(13500), gender_pref |-> <<"F", "e", "m", "a", "l", "e">>,
      amenities |-> << <<"W", "i", "F", "i">>,
                     <<"G", "e", "y", "s", "e", "r">>,
                     <<"S", "e", "c", "u", "r", "i", "t", "y">> >>,
      description |-> <<"I","n","d","e","p","e","n","d","e","n","t"," ","r","o","o","m"," ","i","n"," ","a"," ","p","e","a","c","e","f","u","l"," ","a","n","d"," ","s","e","c","u","r","e"," ","n","e","i","g","h","b","o","r","h","o","o","d",".">>,
      photo_url |-> None, posted_by |-> "user_hash_fgh",
      date_posted |-> 739472, is_active |-> TRUE, expires_at |-> 739502,
      spots_available |-> Some(1) ],
    [ id |-> <<"R", "0", "1", "3">>,
      location |-> [ city |-> <<"B", "e", "n", "g", "a", "l", "u", "r", "u">>,
                     area |-> <<"W", "h", "i", "t", "e", "f", "i", "e", "l", "d">>,
                     pincode |-> <<"5", "6", "0", "0", "6", "6">> ],
      rent |-> Some(11500), gender_pref |-> <<"A", "n", "y">>,
      amenities |-> << <<"W", "i", "F", "i">>,
                     <<"A", "C">>,
                     <<"W", "a", "s", "h", "i", "n", "g", " ", "M", "a", "c", "h", "i", "n", "e">> >>,
      description |-> <<"S","e","m","i","-","f","u","r","n","i","s","h","e","d"," ","r","o","o","m"," ","i","n"," ","a"," ","3","B","H","K"," ","n","e","a","r"," ","I","T","P","L",".">>,
      photo_url |-> Some("https://example.com/img13.jpg"), posted_by |-> "user_hash_ghi",
      date_posted |-> 739473, is_active |-> TRUE, expires_at |-> 739503,
      spots_available |-> Some(1) ],
    [ id |-> <<"R", "0", "1", "4">>,
      location |-> [ city |-> <<"P", "u", "n", "e">>,
                     area |-> <<"B", "a", "n", "e", "r">>,
                     pincode |-> <<"4", "1", "1", "0", "4", "5">> ],
      rent |-> Some(16500), gender_pref |-> <<"M", "a", "l", "e">>,
      amenities |-> << <<"W", "i", "F", "i">>,
                     <<"A", "C">>,
                     <<"P", "a", "r", "k", "i", "n", "g">>,
                     <<"G", "y", "m">> >>,
      description |-> <<"R","o","o","m"," ","i","n"," ","a"," ","p","r","e","m","i","u","m"," ","a","p","a","r","t","m","e","n","t"," ","w","i","t","h"," ","g","r","e","a","t"," ","a","m","e","n","i","t","i","e","s",".">>,
      photo_url |-> Some("https://example.com/img14.jpg"), posted_by |-> "user_hash_hij",
      date_posted |-> 739474, is_active |-> TRUE, expires_at |-> 739504,
      spots_available |-> Some(1) ]
  >>

(* ------------------------------------------------------------------ *)
(* State                                                              *)
(* ------------------------------------------------------------------ *)
VARIABLES
  ROOMS_DB,     \* the in-memory list of listing dicts
  inflight,     \* tool calls received by the server and not yet run
  response,     \* what the call that ran last gave back to its caller
  db_before,    \* ROOMS_DB as it was when that call started
  added,        \* the add_room calls that succeeded: their arguments and ids
  norm          \* a text on its way through one of the normalizers

vars == <<ROOMS_DB, inflight, response, db_before, added, norm>>

\* no text is being normalized
NoNorm == [ fn |-> "none", input |-> <<>>, prev |-> <<>>, text |-> <<>>, passes |-> 0 ]

NoResponse ==
  [ op |-> "none", args |-> <<>>, kind |-> "none",
    missing |-> <<>>, new_id |-> <<>>, results |-> <<>>, overlapped |-> FALSE ]

\* McpError(ErrorData(code=INVALID_PARAMS, ...)): nothing is returned
InvalidParams(op, args) ==
  [ op |-> op, args |-> args, kind |-> "InvalidParameter",
    missing |-> <<>>, new_id |-> <<>>, results |-> <<>>, overlapped |-> FALSE ]

(* ------------------------------------------------------------------ *)
(* add_room                                                           *)
(* ------------------------------------------------------------------ *)
AppendIf(cond, s, name) == IF cond THEN Append(s, name) ELSE s

\* a slip: rent tested with "is None", so that rent=0 is not asked for
missing_fields_rent_is_none(a) ==
  LET m1 == AppendIf(~TruthySeq(a.city), <<>>, "city")
      m2 == AppendIf(~TruthySeq(a.area), m1, "area")
      m3 == AppendIf(a.rent = None, m2, "rent")
      m4 == AppendIf(~TruthySeq(a.gender_pref), m3, "gender preference (Male, Female, or Any)")
      m5 == AppendIf(~TruthyInt(a.spots_available), m4, "number of spots available")
  IN  AppendIf(~TruthySeq(a.description), m5, "a brief description")

\* Step 1 of add_room: the names of the required fields that are falsy
missing_fields(a) ==
  LET m1 == AppendIf(~TruthySeq(a.city), <<>>, "city")
      m2 == AppendIf(~TruthySeq(a.area), m1, "area")
      m3 == AppendIf(~TruthyInt(a.rent), m2, "rent")
      m4 == AppendIf(~TruthySeq(a.gender_pref), m3, "gender preference (Male, Female, or Any)")
      m5 == AppendIf(~TruthyInt(a.spots_available), m4, "number of spots available")
  IN  AppendIf(~TruthySeq(a.description), m5, "a brief description")

\* gender_n = (gender_pref or "").strip().capitalize()
add_room_gender_n(a) == Capitalize(Strip(OrEmpty(a.gender_pref)))

\* a slip: gender_pref stored as it was passed, not trimmed and capitalized
new_room_raw_gender(db, a, today) ==
  [ id |-> new_id(db),
    location |-> [ city |-> Strip(a.city[1]),
                   area |-> Strip(a.area[1]),
                   pincode |-> Strip(OrEmpty(a.pincode)) ],
    rent |-> Some(a.rent[1]),
    gender_pref |-> a.gender_pref[1],
    amenities |-> OrEmpty(a.amenities),
    description |-> Strip(a.description[1]),
    photo_url |-> None,
    posted_by |-> "user_via_mcp",
    date_posted |-> today,
    is_active |-> TRUE,
    expires_at |-> today + 30,
    spots_available |-> Some(a.spots_available[1]) ]

\* the record add_room builds once every check has passed
new_room(db, a, today) ==
  [ id |-> new_id(db),
    location |-> [ city |-> Strip(a.city[1]),
                   area |-> Strip(a.area[1]),
                   pincode |-> Strip(OrEmpty(a.pincode)) ],
    rent |-> Some(a.rent[1]),
    gender_pref |-> add_room_gender_n(a),
    amenities |-> OrEmpty(a.amenities),
    description |-> Strip(a.description[1]),
    photo_url |-> None,
    posted_by |-> "user_via_mcp",
    date_posted |-> today,
    is_active |-> TRUE,
    expires_at |-> today + 30,
    spots_available |-> Some(a.spots_available[1]) ]

\* what add_room gives back
add_room_response(db, a) ==
  IF missing_fields(a) # <<>>
    THEN [ op |-> "add_room", args |-> a, kind |-> "prompt",
           missing |-> missing_fields(a), new_id |-> <<>>, results |-> <<>>,
           overlapped |-> FALSE ]
  ELSE IF add_room_gender_n(a) \notin GENDERS
    THEN InvalidParams("add_room", a)
  ELSE [ op |-> "add_room", args |-> a, kind |-> "success",
         missing |-> <<>>, new_id |-> new_id(db), results |-> <<>>,
         overlapped |-> FALSE ]

\* what add_room leaves in ROOMS_DB
add_room_store(db, a, today) ==
  IF add_room_response(db, a).kind = "success"
    THEN Append(db, new_room(db, a, today))
    ELSE db

(* ------------------------------------------------------------------ *)
(* room_finder                                                        *)
(* ------------------------------------------------------------------ *)
NoRentSentinel == 1000000000

city_n(q) == IF TruthySeq(q.city) THEN normalize_city(q.city[1]) ELSE <<>>

area_n(q) == IF TruthySeq(q.area) THEN normalize_area(q.area[1]) ELSE <<>>

pincode_n(q) == Strip(OrEmpty(q.pincode))

\* None, or the trimmed and capitalized value (which may be empty)
gender_n(q) ==
  IF TruthySeq(q.gender_pref) THEN Some(Capitalize(Strip(q.gender_pref[1]))) ELSE None

\* a slip: the amenities compared as written
MapNormalizeAmenity_raw(s) == s

RECURSIVE MapNormalizeAmenity(_)
MapNormalizeAmenity(s) ==
  IF s = <<>> THEN <<>>
  ELSE <<normalize_amenity(Head(s))>> \o MapNormalizeAmenity(Tail(s))

req_amenities(q) ==
  MapNormalizeAmenity(
    SelectSeq(OrEmpty(q.amenities), LAMBDA a : a # <<>> /\ normalize_amenity(a) # <<>>))

\* the "Normalize inputs" block of room_finder
normalized(q) ==
  [ city_n |-> city_n(q), area_n |-> area_n(q), pincode_n |-> pincode_n(q),
    max_rent |-> q.max_rent, gender_n |-> gender_n(q),
    req_amenities |-> req_amenities(q) ]

\* the check that raises McpError in room_finder
room_finder_rejects(q) == TruthySeq(gender_n(q)) /\ gender_n(q)[1] \notin GENDERS

\* r.get("rent", default)
RentOr(r, default) == IF r.rent = None THEN default ELSE r.rent[1]

\* a slip: any() where the code has all()
PassesFilters_any_amenity(r, n) ==
  /\ r.is_active
  /\ n.city_n # <<>> => n.city_n = normalize_city(r.location.city)
  /\ n.area_n # <<>> => n.area_n = normalize_area(r.location.area)
  /\ n.pincode_n # <<>> => n.pincode_n = r.location.pincode
  /\ n.max_rent # None => ~(RentOr(r, NoRentSentinel) > n.max_rent[1])
  /\ TruthySeq(n.gender_n) =>
       ~(r.gender_pref # <<"A","n","y">> /\ r.gender_pref # n.gender_n[1])
  /\ n.req_amenities # <<>> =>
       LET r_amenities == Range(MapNormalizeAmenity(r.amenities))
       IN  \E i \in DOMAIN n.req_amenities : n.req_amenities[i] \in r_amenities

\* a slip: the gender compared for equality only, Any not let through
PassesFilters_exact_gender(r, n) ==
  /\ r.is_active
  /\ n.city_n # <<>> => n.city_n = normalize_city(r.location.city)
  /\ n.area_n # <<>> => n.area_n = normalize_area(r.location.area)
  /\ n.pincode_n # <<>> => n.pincode_n = r.location.pincode
  /\ n.max_rent # None => ~(RentOr(r, NoRentSentinel) > n.max_rent[1])
  /\ TruthySeq(n.gender_n) => r.gender_pref = n.gender_n[1]
  /\ n.req_amenities # <<>> =>
       LET r_amenities == Range(MapNormalizeAmenity(r.amenities))
       IN  \A i \in DOMAIN n.req_amenities : n.req_amenities[i] \in r_amenities

\* one round of the filtering loop, n being the normalized inputs:
\* TRUE when r reaches results.append(r)
PassesFilters(r, n) ==
  /\ r.is_active
  /\ n.city_n # <<>> => n.city_n = normalize_city(r.location.city)
  /\ n.area_n # <<>> => n.area_n = normalize_area(r.location.area)
  /\ n.pincode_n # <<>> => n.pincode_n = r.location.pincode
  /\ n.max_rent # None => ~(RentOr(r, NoRentSentinel) > n.max_rent[1])
  /\ TruthySeq(n.gender_n) =>
       ~(r.gender_pref # <<"A","n","y">> /\ r.gender_pref # n.gender_n[1])
  /\ n.req_amenities # <<>> =>
       LET r_amenities == Range(MapNormalizeAmenity(r.amenities))
       IN  \A i \in DOMAIN n.req_amenities : n.req_amenities[i] \in r_amenities

\* the filtering loop: positions in db of the listings kept, in store order
RECURSIVE FilterUpTo(_, _, _)
FilterUpTo(db, n, k) ==
  IF k = 0 THEN <<>>
  ELSE LET rest == FilterUpTo(db, n, k - 1)
       IN  IF PassesFilters(db[k], n) THEN Append(rest, k) ELSE rest

\* key=lambda x: (x.get("rent", 0), x.get("date_posted", "")), compared as tuples
KeyLess(r1, r2) ==
  \/ RentOr(r1, 0) < RentOr(r2, 0)
  \/ RentOr(r1, 0) = RentOr(r2, 0) /\ r1.date_posted < r2.date_posted

\* a slip: an unstable sort, an element going before the elements whose
\* key equals its own
RECURSIVE InsertByKey_before_equal(_, _, _)
InsertByKey_before_equal(db, s, x) ==
  IF s = <<>> THEN <<x>>
  ELSE IF ~KeyLess(db[Head(s)], db[x]) THEN <<x>> \o s
  ELSE <<Head(s)>> \o InsertByKey_before_equal(db, Tail(s), x)

\* list.sort is stable: an element goes after every element whose key is
\* not greater than its own
RECURSIVE InsertByKey(_, _, _)
InsertByKey(db, s, x) ==
  IF s = <<>> THEN <<x>>
  ELSE IF KeyLess(db[x], db[Head(s)]) THEN <<x>> \o s
  ELSE <<Head(s)>> \o InsertByKey(db, Tail(s), x)

RECURSIVE SortByKey(_, _)
SortByKey(db, s) ==
  IF s = <<>> THEN <<>>
  ELSE InsertByKey(db, SortByKey(db, SubSeq(s, 1, Len(s) - 1)), s[Len(s)])

Min(a, b) == IF a <= b THEN a ELSE b

\* results[:limit]
Truncate(s, limit) == SubSeq(s, 1, Min(limit, Len(s)))

\* the listings room_finder renders, as positions in db, in report order
room_finder_results(db, q) ==
  LET n == normalized(q)
  IN  Truncate(SortByKey(db, FilterUpTo(db, n, Len(db))), q.limit)

room_finder_response(db, q) ==
  IF room_finder_rejects(q) THEN InvalidParams("room_finder", q)
  ELSE LET res == room_finder_results(db, q)
       IN  [ op |-> "room_finder", args |-> q,
             kind |-> IF res = <<>> THEN "no_results" ELSE "report",
             missing |-> <<>>, new_id |-> <<>>, results |-> res,
             overlapped |-> FALSE ]

(* ------------------------------------------------------------------ *)
(* Bounds and the argument values the tools are called with           *)
(* ------------------------------------------------------------------ *)
\* add_room calls that may succeed in one run of the server
MaxAdds == 2

\* calls the server may hold at once before running them
MaxInFlight == 2

\* listings in a store handed to room_finder in SpecFilter
MaxStore == 2

\* characters in a text handed to a normalizer
MaxLen == 3

\* times a text is put through the same normalizer
MaxPasses == 2

\* date.today() on the days the server is up (2025-08-12)
Days == { 739475 }

s_Pune == <<" ","P","u","n","e"," ">>

s_Baner == <<"B","a","n","e","r">>

s_Bangalore == <<"B","a","n","g","a","l","o","r","e">>

s_Bengaluru == <<"B","e","n","g","a","l","u","r","u">>

s_male == <<" ","m","a","l","e"," ">>

s_MALE == <<"M","A","L","E">>

s_Other == <<"O","t","h","e","r">>

s_blank == <<" ">>

s_description == <<"2","B","H","K"," ","f","l","a","t",".","\n">>

a_WiFi == <<"W","i","F","i">>

a_wifi == <<"w","i","f","i">>

a_Wi_Fi == <<"W","i","-","F","i">>

a_AC == <<"A","C">>

a_Gym == <<"G","y","m">>

a_gym == <<"g","y","m">>

a_bang == <<"!">>

\* every way of leaving required arguments out, and every pairing of the
\* rent and gender_pref values of interest with city present or left out
AddRoomArgs ==
  [ city : { None, Some(s_Pune) },
    area : { None, Some(s_Baner) },
    rent : { None, Some(9000) },
    gender_pref : { None, Some(s_male) },
    spots_available : { None, Some(1) },
    description : { None, Some(s_description) },
    pincode : { None },
    amenities : { Some(<<a_WiFi, a_AC>>) } ]
  \cup
  [ city : { None, Some(s_Pune) },
    area : { Some(s_Baner) },
    rent : { None, Some(0), Some(-1), Some(9000) },
    gender_pref : { None, Some(s_blank), Some(s_Other), Some(s_male) },
    spots_available : { Some(1) },
    description : { Some(s_description) },
    pincode : { None },
    amenities : { Some(<<a_WiFi, a_AC>>) } ]

RoomFinderArgs ==
  [ city : { None, Some(s_Bangalore) },
    area : { None },
    pincode : { None },
    max_rent : { None, Some(9000) },
    gender_pref : { None, Some(<<>>), Some(s_blank), Some(s_Other), Some(s_MALE) },
    amenities : { None },
    limit : { 10 } ]

ValidAdd ==
  [ city |-> Some(s_Pune), area |-> Some(s_Baner), rent |-> Some(9000),
    gender_pref |-> Some(s_male), spots_available |-> Some(1),
    description |-> Some(s_description), pincode |-> None,
    amenities |-> Some(<<a_WiFi, a_AC>>) ]

NoFilters ==
  [ city |-> None, area |-> None, pincode |-> None, max_rent |-> None,
    gender_pref |-> None, amenities |-> None, limit |-> 10 ]

ConcurrentCalls ==
  { [ op |-> "add_room", args |-> ValidAdd, overlapped |-> FALSE ],
    [ op |-> "add_room", args |-> [ ValidAdd EXCEPT !.rent = Some(-1) ],
      overlapped |-> FALSE ],
    [ op |-> "add_room", args |-> [ ValidAdd EXCEPT !.city = None ],
      overlapped |-> FALSE ],
    [ op |-> "add_room", args |-> [ ValidAdd EXCEPT !.gender_pref = Some(s_Other) ],
      overlapped |-> FALSE ],
    [ op |-> "room_finder", args |-> NoFilters, overlapped |-> FALSE ],
    [ op |-> "room_finder", args |-> [ NoFilters EXCEPT !.gender_pref = Some(s_Other) ],
      overlapped |-> FALSE ] }

Listing(id, city, rent, gender, amenities, date, active) ==
  [ id |-> id,
    location |-> [ city |-> city, area |-> s_Baner, pincode |-> <<"4","1","1","0","4","5">> ],
    rent |-> rent, gender_pref |-> gender, amenities |-> amenities,
    description |-> <<"r","o","o","m">>, photo_url |-> None, posted_by |-> "user_hash_abc",
    date_posted |-> date, is_active |-> active, expires_at |-> date + 30,
    spots_available |-> Some(1) ]

g_Any == <<"A","n","y">>

g_Male == <<"M","a","l","e">>

g_Female == <<"F","e","m","a","l","e">>

FilterListings ==
  { Listing(<<"R","0","0","1">>, s_Bengaluru, Some(9000), g_Any, <<a_WiFi, a_AC>>, 739464, TRUE),
    Listing(<<"R","0","0","2">>, s_Bangalore, Some(9001), g_Female, <<a_Wi_Fi>>, 739464, TRUE),
    Listing(<<"R","0","0","3">>, s_Pune, None, g_Male, <<>>, 739464, TRUE),
    Listing(<<"R","0","0","4">>, s_Bengaluru, Some(9000), g_Any, <<a_WiFi, a_AC, a_Gym>>, 739464, FALSE),
    Listing(<<"R","0","0","5">>, s_Bengaluru, Some(9000), g_Male, <<a_Gym>>, 739464, TRUE),
    Listing(<<"R","0","0","6">>, s_Pune, Some(9000), g_Female, <<a_AC, a_WiFi>>, 739463, TRUE) }

\* every list of at most MaxStore listings with pairwise different ids
FilterStores ==
  { s \in UNION { [1..n -> FilterListings] : n \in 0..MaxStore } :
      \A i, j \in DOMAIN s : i # j => s[i].id # s[j].id }

s_ANY == <<"a","N","Y">>

s_pincode == <<"4","1","1","0","4","5"," ">>

s_Kormangala == <<"K","o","r","m","a","n","g","a","l","a">>

\* every combination of the rent, gender and amenity filters and the limit,
\* and single location or gender filters on top of no filter
FilterArgs ==
  [ city : { None },
    area : { None },
    pincode : { None },
    max_rent : { None, Some(9000), Some(NoRentSentinel) },
    gender_pref : { None, Some(s_male) },
    amenities : { None, Some(<<a_wifi>>), Some(<<a_WiFi, a_AC>>), Some(<<a_wifi, a_gym>>),
                  Some(<<a_bang>>) },
    limit : { 1, 50 } ]
  \cup
  { [ NoFilters EXCEPT !.limit = 50, !.city = Some(s_Bangalore) ],
    [ NoFilters EXCEPT !.limit = 50, !.city = Some(s_Bangalore), !.max_rent = Some(9000) ],
    [ NoFilters EXCEPT !.limit = 50, !.area = Some(s_Baner) ],
    [ NoFilters EXCEPT !.limit = 50, !.area = Some(s_Kormangala) ],
    [ NoFilters EXCEPT !.limit = 50, !.pincode = Some(s_pincode) ],
    [ NoFilters EXCEPT !.limit = 50, !.gender_pref = Some(s_ANY) ],
    [ NoFilters EXCEPT !.limit = 50, !.gender_pref = Some(s_Other) ] }

s_BANGALORE == <<" ","B","A","N","G","A","L","O","R","E","!"," ">>

s_Kor_mangala == <<"K","o","r","_","m","a","n","g","a","l","a">>

s_Koregaon_Park == <<"K","o","r","e","g","a","o","n","_"," ","P","a","r","k",".">>

NormalizeAlphabet == { "a", "B", "7", " ", "\t", "_", "!" }

\* every text of at most MaxLen characters over the alphabet, and names the
\* synonym tables rewrite or leave alone
NormalizeInputs ==
  UNION { [ 1..n -> NormalizeAlphabet ] : n \in 0..MaxLen }
  \cup { s_Bangalore, s_BANGALORE, s_Bengaluru, s_Kormangala, s_Kor_mangala,
         s_Koregaon_Park, s_Pune, a_Wi_Fi }

s_Female == <<"F","e","m","a","l","e">>

\* a room in Pune for men, with pincode and amenities
PostPune == [ ValidAdd EXCEPT !.pincode = Some(s_pincode) ]

\* a room under the alias names, for anyone, without pincode and amenities
PostBangalore ==
  [ ValidAdd EXCEPT !.city = Some(s_Bangalore), !.area = Some(s_Kormangala),
                    !.rent = Some(12000), !.gender_pref = Some(s_ANY),
                    !.amenities = None ]

PostArgs ==
  { PostPune, PostBangalore,
    [ PostPune EXCEPT !.description = None ],
    [ PostPune EXCEPT !.gender_pref = Some(s_Other) ] }

\* the filters of PostPune one location field at a time with and without the
\* gender, its rent and amenities around the boundary, everything at once
\* with a small and a large limit, and the same for PostBangalore
FindArgs ==
  [ city : { None, PostPune.city },
    area : { None, PostPune.area },
    pincode : { None, PostPune.pincode },
    max_rent : { None },
    gender_pref : { None, PostPune.gender_pref },
    amenities : { None },
    limit : { 50 } ]
  \cup
  [ city : { None },
    area : { None },
    pincode : { None },
    max_rent : { None, Some(9000), Some(8999) },
    gender_pref : { None },
    amenities : { None, Some(<<a_AC, a_WiFi>>), Some(<<a_WiFi, a_Gym>>) },
    limit : { 50 } ]
  \cup
  [ city : { PostPune.city },
    area : { PostPune.area },
    pincode : { PostPune.pincode },
    max_rent : { Some(9000) },
    gender_pref : { PostPune.gender_pref, Some(s_Female) },
    amenities : { Some(<<a_AC, a_WiFi>>) },
    limit : { 1, 50 } ]
  \cup
  [ city : { None, PostBangalore.city },
    area : { PostBangalore.area },
    pincode : { None },
    max_rent : { None, Some(12000) },
    gender_pref : { PostBangalore.gender_pref },
    amenities : { None },
    limit : { 1, 50 } ]

(* ------------------------------------------------------------------ *)
(* Tool calls: the handlers contain no await, so the event loop runs  *)
(* the body of a call from its first line to its return in one step   *)
(* ------------------------------------------------------------------ *)
StoreLimit == Len(InitialRooms) + MaxAdds

\* one complete run of add_room(**a) on the day `today`
add_room_runs(a, today) ==
  /\ Len(add_room_store(ROOMS_DB, a, today)) <= StoreLimit
  /\ ROOMS_DB' = add_room_store(ROOMS_DB, a, today)
  /\ db_before' = ROOMS_DB
  /\ added' = IF add_room_response(ROOMS_DB, a).kind = "success"
                THEN Append(added, [ args |-> a, id |-> add_room_response(ROOMS_DB, a).new_id ])
                ELSE added
  /\ UNCHANGED norm

\* one complete run of room_finder(**q)
room_finder_runs(q) ==
  /\ response' = room_finder_response(ROOMS_DB, q)
  /\ db_before' = ROOMS_DB
  /\ UNCHANGED <<ROOMS_DB, added, norm>>

(* --- requests served one after the other --------------------------- *)
add_room ==
  \E a \in AddRoomArgs, today \in Days :
    /\ add_room_runs(a, today)
    /\ response' = add_room_response(ROOMS_DB, a)
    /\ UNCHANGED inflight

room_finder ==
  \E q \in RoomFinderArgs :
    /\ room_finder_runs(q)
    /\ UNCHANGED inflight

Init ==
  /\ ROOMS_DB = InitialRooms
  /\ inflight = <<>>
  /\ response = NoResponse
  /\ db_before = InitialRooms
  /\ added = <<>>
  /\ norm = NoNorm

Next == add_room \/ room_finder

Spec == Init /\ [][Next]_vars

(* --- requests issued concurrently ---------------------------------- *)
RemoveAt(s, i) == SubSeq(s, 1, i - 1) \o SubSeq(s, i + 1, Len(s))

\* the server accepts a call; its coroutine has not started yet
Receive ==
  /\ Len(inflight) < MaxInFlight
  /\ \E c \in ConcurrentCalls : inflight' = Append(inflight, c)
  /\ UNCHANGED <<ROOMS_DB, response, db_before, added, norm>>

\* bookkeeping for the properties, not server state: a waiting call
\* remembers that an add_room call got its id while it was waiting
MarkOverlapped(s) == [ i \in DOMAIN s |-> [ s[i] EXCEPT !.overlapped = TRUE ] ]

\* the event loop picks an accepted add_room call and runs it to its return
RunAddRoom ==
  \E i \in DOMAIN inflight, today \in Days :
    LET call == inflight[i]
        resp == add_room_response(ROOMS_DB, call.args)
    IN  /\ call.op = "add_room"
        /\ add_room_runs(call.args, today)
        /\ response' = [ resp EXCEPT !.overlapped = call.overlapped ]
        /\ inflight' = IF resp.kind = "success"
                         THEN MarkOverlapped(RemoveAt(inflight, i))
                         ELSE RemoveAt(inflight, i)

RunRoomFinder ==
  \E i \in DOMAIN inflight :
    /\ inflight[i].op = "room_finder"
    /\ room_finder_runs(inflight[i].args)
    /\ inflight' = RemoveAt(inflight, i)

NextConcurrent == Receive \/ RunAddRoom \/ RunRoomFinder

SpecConcurrent == Init /\ [][NextConcurrent]_vars

(* --- room_finder over stores other than the shipped one ------------- *)
InitFilter ==
  /\ ROOMS_DB \in FilterStores
  /\ inflight = <<>>
  /\ response = NoResponse
  /\ db_before = ROOMS_DB
  /\ added = <<>>
  /\ norm = NoNorm

search ==
  \E q \in FilterArgs :
    /\ room_finder_runs(q)
    /\ UNCHANGED inflight

NextFilter == search

SpecFilter == InitFilter /\ [][NextFilter]_vars

(* --- listings posted and then looked for ---------------------------- *)
post ==
  \E a \in PostArgs, today \in Days :
    /\ add_room_runs(a, today)
    /\ response' = add_room_response(ROOMS_DB, a)
    /\ UNCHANGED inflight

find ==
  \E q \in FindArgs :
    /\ room_finder_runs(q)
    /\ UNCHANGED inflight

NextSearchable == post \/ find

SpecSearchable == Init /\ [][NextSearchable]_vars

(* --- the normalizers on their own ----------------------------------- *)
InitNormalize ==
  /\ ROOMS_DB = InitialRooms
  /\ inflight = <<>>
  /\ response = NoResponse
  /\ db_before = InitialRooms
  /\ added = <<>>
  /\ \E fn \in { "normalize_city", "normalize_area", "normalize_amenity" },
        x \in NormalizeInputs :
        norm = [ fn |-> fn, input |-> x, prev |-> x, text |-> x, passes |-> 0 ]

\* the text goes through its normalizer once more and comes out as `out`
Pass(out) ==
  /\ norm.passes < MaxPasses
  /\ norm' = [ norm EXCEPT !.prev = norm.text, !.text = out,
                           !.passes = norm.passes + 1 ]
  /\ UNCHANGED <<ROOMS_DB, inflight, response, db_before, added>>

apply_normalize_city == norm.fn = "normalize_city" /\ Pass(normalize_city(norm.text))

apply_normalize_area == norm.fn = "normalize_area" /\ Pass(normalize_area(norm.text))

apply_normalize_amenity == norm.fn = "normalize_amenity" /\ Pass(normalize_amenity(norm.text))

NextNormalize == apply_normalize_city \/ apply_normalize_area \/ apply_normalize_amenity

SpecNormalize == InitNormalize /\ [][NextNormalize]_vars

(* ------------------------------------------------------------------ *)
(* Properties                                                         *)
(* ------------------------------------------------------------------ *)
RanAddRoom == response.op = "add_room"

RanRoomFinder == response.op = "room_finder"

Required == { "city", "area", "rent", "gender_pref", "spots_available", "description" }

\* the words the prompt uses for each required field
PromptName ==
  [ f \in Required |->
      CASE f = "city" -> "city"
        [] f = "area" -> "area"
        [] f = "rent" -> "rent"
        [] f = "gender_pref" -> "gender preference (Male, Female, or Any)"
        [] f = "spots_available" -> "number of spots available"
        [] f = "description" -> "a brief description" ]

Named(f) == PromptName[f] \in Range(response.missing)

\* the argument was passed as None, as an empty string or as the number zero
Blank(a, f) ==
  \/ a[f] = None
  \/ f \in { "rent", "spots_available" } /\ a[f][1] = 0
  \/ f \notin { "rent", "spots_available" } /\ a[f][1] = <<>>

TrimmedCapitalized(o) == Capitalize(Strip(o[1]))

\* C1: whenever gender_pref is passed to add_room or room_finder and, trimmed
\* and capitalized, is none of Male, Female, Any, the call ends in
\* InvalidParameter and the store is as it was, whatever the other arguments.
C1_InvalidGenderAlwaysRejected ==
  ( /\ RanAddRoom \/ RanRoomFinder
    /\ response.args.gender_pref # None
    /\ TrimmedCapitalized(response.args.gender_pref) \notin GENDERS )
  => ( response.kind = "InvalidParameter" /\ ROOMS_DB = db_before )

\* C2 as stated: when a required argument of add_room was not passed, the
\* call answers with a prompt, leaves the store alone, and the prompt names a
\* required field if and only if that argument was not passed.
C2_NamedIffNotSupplied ==
  ( RanAddRoom /\ \E f \in Required : response.args[f] = None )
  => /\ response.kind = "prompt"
     /\ ROOMS_DB = db_before
     /\ \A f \in Required : Named(f) <=> response.args[f] = None

\* C2 amended: when a required argument of add_room is None, an empty string
\* or zero, the call answers with a prompt, leaves the store alone, and the
\* prompt names each such field once and no other field.
C2_NamedIffBlank ==
  ( RanAddRoom /\ \E f \in Required : Blank(response.args, f) )
  => /\ response.kind = "prompt"
     /\ ROOMS_DB = db_before
     /\ \A f \in Required : Named(f) <=> Blank(response.args, f)
     /\ Len(response.missing) = Cardinality({ f \in Required : Blank(response.args, f) })

\* a prompt that names rent although rent=0 was passed, next to a field
\* that was really left out
C2_Witness ==
  /\ RanAddRoom /\ response.kind = "prompt"
  /\ response.args.city = None /\ response.args.rent = Some(0)
  /\ response.args.area # None
  /\ response.missing = <<"city", "rent">>
  /\ ROOMS_DB = db_before

IdNumber(room) == ParseInt(Tail(room.id))

\* the largest numeric id suffix in db, 0 for a store without numeric ids
MaxIdNumber(db) ==
  LET nums == { IdNumber(db[i]) : i \in { j \in DOMAIN db : HasNumericId(db[j]) } } \cup {0}
  IN  CHOOSE m \in nums : \A n \in nums : n <= m

\* C3: an add_room call whose six required arguments are all non-empty and
\* non-zero and whose gender_pref is valid succeeds, appends exactly one
\* record at the end of the store, leaves the earlier records as they were
\* and where they were, and the new record is active and carries the id
\* R<max numeric suffix before the call + 1>.
C3_AddAppendsOneWithNextId ==
  ( /\ RanAddRoom
    /\ \A f \in Required : ~Blank(response.args, f)
    /\ TrimmedCapitalized(response.args.gender_pref) \in GENDERS )
  => /\ response.kind = "success"
     /\ Len(ROOMS_DB) = Len(db_before) + 1
     /\ \A i \in DOMAIN db_before : ROOMS_DB[i] = db_before[i]
     /\ LET new == ROOMS_DB[Len(ROOMS_DB)]
        IN  /\ new.is_active = TRUE
            /\ HasNumericId(new)
            /\ IdNumber(new) = MaxIdNumber(db_before) + 1
            /\ response.new_id = new.id

\* the second successful add_room of a run: R016 after R015
C3_Witness ==
  /\ RanAddRoom /\ response.kind = "success"
  /\ Len(ROOMS_DB) = Len(InitialRooms) + 2
  /\ ROOMS_DB[Len(ROOMS_DB)].id = <<"R","0","1","6">>
  /\ ROOMS_DB[Len(ROOMS_DB) - 1].id = <<"R","0","1","5">>

\* C4: the ids in the store are pairwise different in every reachable state,
\* however the add_room and room_finder calls in flight are ordered.
C4_IdsPairwiseDistinct ==
  \A i, j \in DOMAIN ROOMS_DB : i # j => ROOMS_DB[i].id # ROOMS_DB[j].id

\* two add_room calls were in flight together and both were given an id
C4_Witness ==
  /\ RanAddRoom /\ response.kind = "success" /\ response.overlapped
  /\ Len(ROOMS_DB) = Len(InitialRooms) + 2

\* C5: every listing in the store has a rent, and it is greater than zero.
C5_RentsPositive ==
  \A i \in DOMAIN ROOMS_DB : ROOMS_DB[i].rent # None /\ ROOMS_DB[i].rent[1] > 0

Reported == Range(response.results)

Answered == RanRoomFinder /\ response.kind # "InvalidParameter"

\* nothing was cut off by results[:limit]
Untruncated == response.args.limit >= Len(ROOMS_DB)

\* the positions reported for the request q
ReportedFor(q) == Range(room_finder_results(ROOMS_DB, q))

\* q has every filter of q0, the same limit, and possibly more filters
Extends(q, q0) ==
  /\ q0.limit = q.limit
  /\ \A f \in { "city", "area", "pincode", "max_rent", "gender_pref" } :
        q0[f] = None \/ q0[f] = q[f]
  /\ \/ q0.amenities = None
     \/ q.amenities # None /\ Range(q0.amenities[1]) \subseteq Range(q.amenities[1])

\* C6: a request that adds constraints to the filters of another request,
\* with the same limit and on the same store, never reports more listings.
C6_FilteringMonotonic ==
  Answered =>
    \A q0 \in FilterArgs :
      Extends(response.args, q0) =>
        Len(response.results) <= Len(room_finder_results(ROOMS_DB, q0))

\* a request answered with one listing where the request without its
\* amenity filter is answered with two
C6_Witness ==
  /\ Answered /\ Len(response.results) = 1
  /\ response.args.amenities # None /\ response.args.limit = 50
  /\ Len(room_finder_results(ROOMS_DB, [ response.args EXCEPT !.amenities = None ])) = 2

C8_GenderFilter ==
  ( /\ Answered /\ Untruncated
    /\ response.args.gender_pref # None
    /\ TrimmedCapitalized(response.args.gender_pref) \in GENDERS )
  => \A i \in DOMAIN ROOMS_DB :
       i \in Reported <=>
         /\ i \in ReportedFor([ response.args EXCEPT !.gender_pref = None ])
         /\ \/ ROOMS_DB[i].gender_pref = <<"A","n","y">>
            \/ ROOMS_DB[i].gender_pref = TrimmedCapitalized(response.args.gender_pref)

\* a request for " male " over an Any listing and a Female listing reports
\* the first and not the second
C8_Witness ==
  /\ Answered /\ Untruncated
  /\ response.args.gender_pref = Some(s_male)
  /\ Len(ROOMS_DB) = 2
  /\ ROOMS_DB[1].gender_pref = <<"A","n","y">>
  /\ ROOMS_DB[2].gender_pref = <<"F","e","m","a","l","e">>
  /\ response.results = <<1>>
  /\ ReportedFor([ response.args EXCEPT !.gender_pref = None ]) = {1, 2}

NormalizedAmenities(r) == { normalize_amenity(r.amenities[k]) : k \in DOMAIN r.amenities }

\* C9 as stated: with a non-empty amenities filter given, a listing is let
\* through if and only if the normalized form of every requested amenity is
\* among the listing's normalized amenities.
C9_AllRequestedPresent ==
  ( /\ Answered /\ Untruncated
    /\ response.args.amenities # None /\ response.args.amenities[1] # <<>> )
  => \A i \in DOMAIN ROOMS_DB :
       i \in Reported <=>
         /\ i \in ReportedFor([ response.args EXCEPT !.amenities = None ])
         /\ \A k \in DOMAIN response.args.amenities[1] :
               normalize_amenity(response.args.amenities[1][k]) \in NormalizedAmenities(ROOMS_DB[i])

\* C9 amended: with a non-empty amenities filter given, a listing is let
\* through if and only if every requested amenity whose normalized form is
\* not empty has that form among the listing's normalized amenities; a
\* requested amenity that normalizes to the empty string asks for nothing.
C9_AllNonEmptyRequestedPresent ==
  ( /\ Answered /\ Untruncated
    /\ response.args.amenities # None /\ response.args.amenities[1] # <<>> )
  => \A i \in DOMAIN ROOMS_DB :
       i \in Reported <=>
         /\ i \in ReportedFor([ response.args EXCEPT !.amenities = None ])
         /\ \A k \in DOMAIN response.args.amenities[1] :
               LET a == normalize_amenity(response.args.amenities[1][k])
               IN  a = <<>> \/ a \in NormalizedAmenities(ROOMS_DB[i])

\* the listing with amenities WiFi, AC is reported for ["WiFi", "AC"]
\* while the listing with Wi-Fi alone is not
C9_Witness ==
  /\ Answered /\ Untruncated
  /\ response.args.amenities = Some(<<a_WiFi, a_AC>>)
  /\ Len(ROOMS_DB) = 2
  /\ ROOMS_DB[1].amenities = <<a_Wi_Fi>>
  /\ ROOMS_DB[2].amenities = <<a_WiFi, a_AC>>
  /\ ReportedFor([ response.args EXCEPT !.amenities = None ]) = {1, 2}
  /\ response.results = <<2>>

\* the active listings that pass every filter of the request
Matching(q) ==
  { i \in DOMAIN ROOMS_DB : ROOMS_DB[i].is_active /\ PassesFilters(ROOMS_DB[i], normalized(q)) }

\* i comes before j in the ranking: lower rent, then earlier date_posted,
\* then earlier place in the store (a listing without rent ranks as rent 0)
RanksBefore(i, j) ==
  LET ri == RentOr(ROOMS_DB[i], 0)
      rj == RentOr(ROOMS_DB[j], 0)
      di == ROOMS_DB[i].date_posted
      dj == ROOMS_DB[j].date_posted
  IN  \/ ri < rj
      \/ ri = rj /\ di < dj
      \/ ri = rj /\ di = dj /\ i < j

\* C10: the report lists the first `limit` matching active listings in the
\* order rent ascending, then date_posted ascending, then store order; never
\* more than `limit` of them and never an inactive one.
C10_FirstLimitOfStableRanking ==
  Answered =>
    LET res == response.results
        M == Matching(response.args)
    IN  /\ Len(res) = Min(response.args.limit, Cardinality(M))
        /\ Len(res) <= response.args.limit
        /\ \A k \in DOMAIN res : res[k] \in M /\ ROOMS_DB[res[k]].is_active
        /\ \A k, l \in DOMAIN res : k < l => RanksBefore(res[k], res[l])
        /\ \A m \in M \ Range(res) : \A k \in DOMAIN res : RanksBefore(res[k], m)

\* two listings with the same rent and date_posted match, the limit is 1,
\* and the one stored first is the one reported
C10_Witness ==
  /\ Answered /\ response.args.limit = 1
  /\ Len(ROOMS_DB) = 2
  /\ Matching(response.args) = {1, 2}
  /\ ROOMS_DB[1].rent = ROOMS_DB[2].rent
  /\ ROOMS_DB[1].date_posted = ROOMS_DB[2].date_posted
  /\ response.results = <<1>>

\* C11: each of normalize_city, normalize_area and normalize_amenity gives
\* back its own output unchanged: from the second pass on, a pass leaves the
\* text as the pass before left it, also for a text the synonym table rewrote.
C11_NormalizationIdempotent ==
  norm.passes >= 2 => norm.text = norm.prev

\* " BANGALORE! " after two passes through normalize_city: rewritten to
\* bengaluru by the first, left alone by the second
C11_Witness ==
  /\ norm.fn = "normalize_city" /\ norm.input = s_BANGALORE
  /\ norm.passes = 2
  /\ norm.prev = <<"b","e","n","g","a","l","u","r","u">>
  /\ norm.text = norm.prev

\* the filters of q are absent or are the values add_room was given in a;
\* the rent ceiling is not below a's rent; the amenities asked for are among a's
FiltersFrom(q, a) ==
  /\ \A f \in { "city", "area", "pincode", "gender_pref" } : q[f] = None \/ q[f] = a[f]
  /\ q.max_rent = None \/ q.max_rent[1] >= a.rent[1]
  /\ q.amenities = None \/ Range(q.amenities[1]) \subseteq Range(OrEmpty(a.amenities))

ReportedIds == { ROOMS_DB[response.results[k]].id : k \in DOMAIN response.results }

====
